---- MODULE Spec2Model ----
(***************************************************************************)
(* PublisherAgent: a conversational agent that designs an advertisement,  *)
(* uploads its image to object storage and records the ad on chain.       *)
(*                                                                         *)
(* The repository holds four near-duplicate programs ("variants"):        *)
(* src/adAgent.ts, the second program in src/s3UploadTool.ts,             *)
(* src/unnamed/part_000 and src/unnamed/part_001.  The module models      *)
(*   - invokeContract           (specification SpecInvoke),               *)
(*   - uploadImageUrlToS3       (specification SpecUpload),               *)
(*   - the process from validateEnvironment to the interaction loops      *)
(*                              (specification Spec).                     *)
(*                                                                         *)
(* JavaScript strings are sequences of one-character strings, so that     *)
(* concatenation, containment and case conversion are computed.           *)
(***************************************************************************)
EXTENDS Integers, Sequences, FiniteSets, TLC

VARIABLES
    variant,        \* which of the four programs runs
    \* ---- invokeContract ----
    pcInvoke,       \* position inside the current invokeContract call
    method,         \* parameter `method`
    abi,            \* parameter `abi`
    args,           \* parameter `args`
    thrown,         \* the value caught by the catch block, if any
    txHash,         \* receipt.getTransactionHash()
    result,         \* how the promise returned by invokeContract settled
    calls,          \* external calls made by the current invocation, in order
    walletLog,      \* every wallet.invokeContract submission so far
    nInvoked,       \* number of invokeContract calls started
    viaTool,        \* whether the current call came through the registered tool
    \* ---- uploadImageUrlToS3 (one entry per call) ----
    upPc,           \* position inside the call
    imageUrl,       \* parameter `imageUrl`
    response,       \* the promise of axios.get and what it resolved with
    fileBuffer,     \* Buffer.from(response.data)
    objectKey,      \* the generated object key
    upResult,       \* how the promise returned by the call settled
    toolResult,     \* how the promise of the upload_to_s3 handler settled
    now,            \* Date.now()
    fetchLog,       \* every axios.get issued
    s3Requests,     \* every s3.upload issued
    stored,         \* every object write the storage service completed, in order
    writeDone,      \* whether the call's storage write has completed
    \* ---- the process ----
    pc,             \* where the process is
    env,            \* process.env
    exitCode,       \* the exit status, -1 while the process runs
    exitSite,       \* which statement ended the process
    stderr,         \* lines written by console.error / console.warn
    printed,        \* what the interaction loops wrote with console.log
    walletFile,     \* the file WALLET_DATA_FILE
    fileOps,        \* the fs calls made on WALLET_DATA_FILE and the wallet SDK calls
                    \* around them, in program order
    walletDataStr,  \* the local walletDataStr
    sdkConfig,      \* the config passed to CdpAgentkit.configureWithWallet
    allTools,       \* the tool list handed to createReactAgent
    mode,           \* the mode chooseMode returned
    choice,         \* the last line chooseMode read
    chatReads,      \* the lines runChatMode read
    sent,           \* the messages passed to agent.stream
    nChunks,        \* chunks consumed from the current stream
    arrived,        \* every chunk the streams yielded, in order of arrival
    loopError       \* the value caught by the catch block of the running loop

invokeVars ==
    <<pcInvoke, method, abi, args, thrown, txHash, result, calls, walletLog, nInvoked,
      viaTool>>

uploadVars ==
    <<upPc, imageUrl, response, fileBuffer, objectKey, upResult, toolResult, now, fetchLog,
      s3Requests, stored, writeDone>>

procVars ==
    <<pc, env, exitCode, exitSite, stderr, printed, walletFile, fileOps, walletDataStr,
      sdkConfig, allTools, mode, choice, chatReads, sent, nChunks, arrived, loopError>>

vars ==
    <<variant, invokeVars, uploadVars, procVars>>

outsideInvoke ==
    <<variant, uploadVars, procVars>>

outsideUpload ==
    <<variant, invokeVars, procVars>>

outsideProc ==
    <<variant, invokeVars, uploadVars>>

-----------------------------------------------------------------------------
(* Bounds *)

MaxInvocations == 2

MaxUploads == 2

MaxClock == 1

MaxReads == 2

MaxSends == 2

MaxChunks == 2

-----------------------------------------------------------------------------
(* Strings *)

IsPrefix(p, s) ==
    Len(p) <= Len(s) /\ SubSeq(s, 1, Len(p)) = p

\* String.prototype.includes
Contains(s, t) ==
    \E i \in 0..(Len(s) - Len(t)) : SubSeq(s, i + 1, i + Len(t)) = t

\* "ABCDEFGHIJKLMNOPQRSTUVWXYZ"
UpperCaseLetters ==
    <<"A","B","C","D","E","F","G","H","I","J","K","L","M","N","O","P","Q","R","S","T","U","V",
      "W","X","Y","Z">>

\* "abcdefghijklmnopqrstuvwxyz"
LowerCaseLetters ==
    <<"a","b","c","d","e","f","g","h","i","j","k","l","m","n","o","p","q","r","s","t","u","v",
      "w","x","y","z">>

LowerChar(c) ==
    IF \E i \in 1..Len(UpperCaseLetters) : UpperCaseLetters[i] = c
      THEN LowerCaseLetters[CHOOSE i \in 1..Len(UpperCaseLetters) : UpperCaseLetters[i] = c]
      ELSE c

\* String.prototype.toLowerCase
ToLowerCase(s) ==
    [i \in 1..Len(s) |-> LowerChar(s[i])]

WhiteSpace ==
    {" ", "\t", "\n", "\r"}

\* String.prototype.trim
Trim(s) ==
    LET keep == {i \in 1..Len(s) : s[i] \notin WhiteSpace}
    IN  IF keep = {}
          THEN <<>>
          ELSE SubSeq(s, CHOOSE i \in keep : \A j \in keep : i <= j,
                         CHOOSE i \in keep : \A j \in keep : j <= i)

\* "Method "
MethodPrefix ==
    <<"M","e","t","h","o","d"," ">>

\* " not found in ABI"
NotFoundSuffix ==
    <<" ","n","o","t"," ","f","o","u","n","d"," ","i","n"," ","A","B","I">>

\* "not found"
NotFoundText ==
    <<"n","o","t"," ","f","o","u","n","d">>

\* "Contract invocation completed, but transaction hash is not available"
NoHashMessage ==
    <<"C","o","n","t","r","a","c","t"," ","i","n","v","o","c","a","t","i","o","n"," ","c","o",
      "m","p","l","e","t","e","d",","," ","b","u","t"," ","t","r","a","n","s","a","c","t","i",
      "o","n"," ","h","a","s","h"," ","i","s"," ","n","o","t"," ","a","v","a","i","l","a","b",
      "l","e">>

\* "https://sepolia.basescan.org/tx/"
ExplorerTxUrl ==
    <<"h","t","t","p","s",":","/","/","s","e","p","o","l","i","a",".","b","a","s","e","s","c",
      "a","n",".","o","r","g","/","t","x","/">>

\* "Ad Created successfully. Transaction hash: "
AdCreatedPrefix ==
    <<"A","d"," ","C","r","e","a","t","e","d"," ","s","u","c","c","e","s","s","f","u","l","l",
      "y","."," ","T","r","a","n","s","a","c","t","i","o","n"," ","h","a","s","h",":"," ">>

\* " \n https://testnets.opensea.io/"
OpenSeaInfix ==
    <<" ","\n"," ","h","t","t","p","s",":","/","/","t","e","s","t","n","e","t","s",".","o","p",
      "e","n","s","e","a",".","i","o","/">>

\* "Ad published successfully. Transaction hash: "
AdPublishedPrefix ==
    <<"A","d"," ","p","u","b","l","i","s","h","e","d"," ","s","u","c","c","e","s","s","f","u",
      "l","l","y","."," ","T","r","a","n","s","a","c","t","i","o","n"," ","h","a","s","h",":",
      " ">>

\* "Failed to publish ad: "
FailedPrefix ==
    <<"F","a","i","l","e","d"," ","t","o"," ","p","u","b","l","i","s","h"," ","a","d",":"," ">>

\* "Failed to publish ad"
FailedToPublishAd ==
    <<"F","a","i","l","e","d"," ","t","o"," ","p","u","b","l","i","s","h"," ","a","d">>

\* "Failed to publish ad due to an unknown error"
UnknownErrorMessage ==
    <<"F","a","i","l","e","d"," ","t","o"," ","p","u","b","l","i","s","h"," ","a","d"," ","d",
      "u","e"," ","t","o"," ","a","n"," ","u","n","k","n","o","w","n"," ","e","r","r","o","r">>

\* "undefined"
UndefinedText ==
    <<"u","n","d","e","f","i","n","e","d">>

\* "createAd"
createAd ==
    <<"c","r","e","a","t","e","A","d">>

\* "publishAd"
publishAd ==
    <<"p","u","b","l","i","s","h","A","d">>

-----------------------------------------------------------------------------
(* The program variants and their static contract tables *)

Variants ==
    {"adAgent", "s3UploadTool", "part_000", "part_001"}

AD_CONTRACT_ADDRESS(v) ==
    CASE v = "adAgent"      -> "0xF714043eE1176B16dd6C9E9beB260D6b4D8eab95"
      [] v = "s3UploadTool" -> "0x7C4Cc48b56c1CC695D488709f0045ddb8816E569"
      [] v = "part_000"     -> "0xF714043eE1176B16dd6C9E9beB260D6b4D8eab95"
      [] v = "part_001"     -> "0x1f169173e8E54b65b4cd321217443E1919728e3c"

CreateAdAbi ==
    <<[name   |-> createAd,
       type   |-> "function",
       inputs |-> <<[name |-> "to", type |-> "address"],
                    [name |-> "title", type |-> "string"],
                    [name |-> "text", type |-> "string"],
                    [name |-> "imageURL", type |-> "string"]>>]>>

PublishAdAbi ==
    <<[name   |-> publishAd,
       type   |-> "function",
       inputs |-> <<[name |-> "to", type |-> "address"],
                    [name |-> "text", type |-> "string"]>>]>>

AD_CONTRACT_ABI(v) ==
    IF v = "part_001" THEN PublishAdAbi ELSE CreateAdAbi

\* mutant: the publishAd program kept the method name of the createAd programs
ToolMethodCreateAdEverywhere(v) ==
    createAd

\* the method name the registered tool passes to invokeContract
ToolMethod(v) ==
    IF v = "part_001" THEN publishAd ELSE createAd

-----------------------------------------------------------------------------
(* Values the environment of invokeContract can produce *)

\* a JavaScript value that can be thrown: an Error instance, or any other
\* value, which may or may not carry a `message` property
ErrorValue(m) ==
    [instanceOfError |-> TRUE, hasMessage |-> TRUE, message |-> m]

PlainObjectWithMessage(m) ==
    [instanceOfError |-> FALSE, hasMessage |-> TRUE, message |-> m]

ValueWithoutMessage ==
    [instanceOfError |-> FALSE, hasMessage |-> FALSE, message |-> <<>>]

NoThrown ==
    [instanceOfError |-> FALSE, hasMessage |-> FALSE, message |-> <<"-">>]

ErrorMessages ==
    { <<>>,
      <<"r","e","v","e","r","t">>,
      <<"d","u","e"," ","t","o"," ","a","n"," ","u","n","k","n","o","w","n"," ","e","r","r","o","r">> }

ThrownValues ==
    {ErrorValue(m) : m \in ErrorMessages}
      \cup {PlainObjectWithMessage(<<"r","e","v","e","r","t">>), ValueWithoutMessage}

\* values a failing library call (axios, the storage client, the agent runtime,
\* the wallet SDK at startup) may throw
LibraryThrownValues ==
    {ErrorValue(<<"r","e","v","e","r","t">>), ValueWithoutMessage}

\* receipt.getTransactionHash(): string | undefined
UndefinedHash ==
    [defined |-> FALSE, value |-> <<>>]

HashString(h) ==
    [defined |-> TRUE, value |-> h]

TransactionHashes ==
    { UndefinedHash,
      HashString(<<>>),
      HashString(<<"0","x","d","e","a","d">>),
      HashString(<<"0","x","1">>) }

Recipients ==
    { <<"0","x","a","b","c">>, <<"0","x","d">> }

\* mutant: every variant carries the two-field schema of the publishAd program
SchemaArgsPublishOnly(v) ==
    { [to |-> r, text |-> <<"X">>] : r \in Recipients }

\* params.args as accepted by the variant's InvokeContractInput schema
SchemaArgs(v) ==
    IF v = "part_001"
      THEN { [to |-> r, text |-> <<"X">>] : r \in Recipients }
      ELSE { [to |-> r, text |-> <<"X">>, title |-> <<"T">>, imageURL |-> <<"u">>] :
               r \in Recipients }

\* args: Record<string, any> of a direct call need not carry `to`
ArgsInputs(v) ==
    SchemaArgs(v) \cup { [text |-> <<"X">>] }

MethodInputs ==
    {createAd, publishAd, <<"m","i","n","t">>}

AbiInputs ==
    {CreateAdAbi, PublishAdAbi, <<>>}

-----------------------------------------------------------------------------
(* invokeContract *)

\* mutant: the lookup accepts any function entry, whatever its name
AbiFindAnyFunction(a, m) ==
    IF \E i \in 1..Len(a) : a[i].type = "function"
      THEN [found |-> TRUE, index |-> 1]
      ELSE [found |-> FALSE, index |-> 0]

\* abi.find((func) => func.name === method)
AbiFind(a, m) ==
    IF \E i \in 1..Len(a) : a[i].name = m
      THEN [found |-> TRUE,
            index |-> CHOOSE i \in 1..Len(a) :
                        a[i].name = m /\ \A j \in 1..(i - 1) : a[j].name # m]
      ELSE [found |-> FALSE, index |-> 0]

\* new Error(`Method ${method} not found in ABI`)
MethodNotFoundError(m) ==
    ErrorValue(MethodPrefix \o m \o NotFoundSuffix)

\* `${args.to}`
ArgsTo(ar) ==
    IF "to" \in DOMAIN ar THEN ar.to ELSE UndefinedText

\* !txHash
HashMissing(h) ==
    ~h.defined \/ h.value = <<>>

\* mutant: the explorer link is emitted without the hash
SuccessMessageWithoutHash(v, h, ar) ==
    IF v = "part_001"
      THEN AdPublishedPrefix \o ExplorerTxUrl
      ELSE AdCreatedPrefix \o ExplorerTxUrl \o OpenSeaInfix \o ArgsTo(ar)

\* mutant: the marketplace link is emitted without the recipient
SuccessMessageWithoutRecipient(v, h, ar) ==
    IF v = "part_001"
      THEN AdPublishedPrefix \o ExplorerTxUrl \o h
      ELSE AdCreatedPrefix \o ExplorerTxUrl \o h \o OpenSeaInfix

\* mutant: the second program of src/s3UploadTool.ts words its success message
\* differently from the other createAd programs
SuccessMessagePerVariant(v, h, ar) ==
    IF v = "part_001"
      THEN AdPublishedPrefix \o ExplorerTxUrl \o h
      ELSE IF v = "s3UploadTool"
             THEN AdPublishedPrefix \o ExplorerTxUrl \o h \o OpenSeaInfix \o ArgsTo(ar)
             ELSE AdCreatedPrefix \o ExplorerTxUrl \o h \o OpenSeaInfix \o ArgsTo(ar)

\* the template literal of the success return
SuccessMessage(v, h, ar) ==
    IF v = "part_001"
      THEN AdPublishedPrefix \o ExplorerTxUrl \o h
      ELSE AdCreatedPrefix \o ExplorerTxUrl \o h \o OpenSeaInfix \o ArgsTo(ar)

Pending ==
    [kind |-> "pending", value |-> <<>>, error |-> NoThrown]

Returned(s) ==
    [kind |-> "return", value |-> s, error |-> NoThrown]

Rejected(e) ==
    [kind |-> "throw", value |-> <<>>, error |-> e]

\* mutant: only Error instances are converted, anything else is re-thrown
CatchHandlerRethrows(error) ==
    IF error.instanceOfError
      THEN Returned(FailedPrefix \o error.message)
      ELSE Rejected(error)

\* mutant: the message of the caught Error is dropped
CatchHandlerDropsMessage(error) ==
    Returned(UnknownErrorMessage)

\* catch (error) { ... }
CatchHandler(error) ==
    IF error.instanceOfError
      THEN Returned(FailedPrefix \o error.message)
      ELSE Returned(UnknownErrorMessage)

\* mutant: a missing hash is raised as an error and so reported as a failure
HashResultFailsOnMissing(v, h, ar) ==
    IF HashMissing(h)
      THEN Returned(FailedPrefix \o NoHashMessage)
      ELSE Returned(SuccessMessage(v, h.value, ar))

\* the statements after `const txHash = receipt.getTransactionHash()`
HashResult(v, h, ar) ==
    IF HashMissing(h)
      THEN Returned(NoHashMessage)
      ELSE Returned(SuccessMessage(v, h.value, ar))

SubmitCall(contractAddress, m, ar, a) ==
    [op |-> "wallet.invokeContract", contractAddress |-> contractAddress,
     method |-> m, args |-> ar, abi |-> a]

WaitCall ==
    [op |-> "contractInvocation.wait"]

GetHashCall ==
    [op |-> "receipt.getTransactionHash"]

\* mutant: a submission identical to an earlier one is not sent again
invokeContractDeduplicated(contractAddress, m, a, ar) ==
    /\ pcInvoke \in {"idle", "returned"}
    /\ nInvoked < MaxInvocations
    /\ nInvoked' = nInvoked + 1
    /\ method' = m
    /\ abi' = a
    /\ args' = ar
    /\ txHash' = UndefinedHash
    /\ IF AbiFind(a, m).found
         THEN /\ calls' = <<SubmitCall(contractAddress, m, ar, a)>>
              /\ walletLog' =
                    IF \E k \in 1..Len(walletLog) :
                          walletLog[k] = SubmitCall(contractAddress, m, ar, a)
                      THEN walletLog
                      ELSE Append(walletLog, SubmitCall(contractAddress, m, ar, a))
              /\ thrown' = NoThrown
              /\ result' = Pending
              /\ pcInvoke' = "submitted"
         ELSE /\ calls' = <<>>
              /\ walletLog' = walletLog
              /\ thrown' = MethodNotFoundError(m)
              /\ result' = CatchHandler(MethodNotFoundError(m))
              /\ pcInvoke' = "returned"
    /\ UNCHANGED outsideInvoke

\* invokeContract up to its first await: the ABI lookup and the submission
invokeContract(contractAddress, m, a, ar) ==
    /\ pcInvoke \in {"idle", "returned"}
    /\ nInvoked < MaxInvocations
    /\ nInvoked' = nInvoked + 1
    /\ method' = m
    /\ abi' = a
    /\ args' = ar
    /\ txHash' = UndefinedHash
    /\ IF AbiFind(a, m).found
         THEN /\ calls' = <<SubmitCall(contractAddress, m, ar, a)>>
              /\ walletLog' = Append(walletLog, SubmitCall(contractAddress, m, ar, a))
              /\ thrown' = NoThrown
              /\ result' = Pending
              /\ pcInvoke' = "submitted"
         ELSE /\ calls' = <<>>
              /\ walletLog' = walletLog
              /\ thrown' = MethodNotFoundError(m)
              /\ result' = CatchHandler(MethodNotFoundError(m))
              /\ pcInvoke' = "returned"
    /\ UNCHANGED outsideInvoke

\* the func of the registered tool (create_ad / publish_ad)
invokeContractTool(params) ==
    /\ invokeContract(AD_CONTRACT_ADDRESS(variant), ToolMethod(variant),
                      AD_CONTRACT_ABI(variant), params.args)
    /\ viaTool' = TRUE

\* await wallet.invokeContract(...) resolves; contractInvocation.wait() is called
SubmissionResolves ==
    /\ pcInvoke = "submitted"
    /\ calls' = Append(calls, WaitCall)
    /\ pcInvoke' = "waiting"
    /\ UNCHANGED <<outsideInvoke, method, abi, args, thrown, txHash, result, walletLog, nInvoked, viaTool>>

\* await wallet.invokeContract(...) throws
SubmissionThrows(e) ==
    /\ pcInvoke = "submitted"
    /\ thrown' = e
    /\ result' = CatchHandler(e)
    /\ pcInvoke' = "returned"
    /\ UNCHANGED <<outsideInvoke, method, abi, args, txHash, calls, walletLog, nInvoked, viaTool>>

\* await contractInvocation.wait() resolves; the hash is read and the result built
WaitResolves(h) ==
    /\ pcInvoke = "waiting"
    /\ txHash' = h
    /\ calls' = Append(calls, GetHashCall)
    /\ result' = HashResult(variant, h, args)
    /\ pcInvoke' = "returned"
    /\ UNCHANGED <<outsideInvoke, method, abi, args, thrown, walletLog, nInvoked, viaTool>>

\* await contractInvocation.wait() throws
WaitThrows(e) ==
    /\ pcInvoke = "waiting"
    /\ thrown' = e
    /\ result' = CatchHandler(e)
    /\ pcInvoke' = "returned"
    /\ UNCHANGED <<outsideInvoke, method, abi, args, txHash, calls, walletLog, nInvoked, viaTool>>

-----------------------------------------------------------------------------
(* uploadImageUrlToS3 *)

\* "ad-images/"
KeyPrefix ==
    <<"a","d","-","i","m","a","g","e","s","/">>

\* ".png"
KeyExtension ==
    <<".","p","n","g">>

\* "placeholderads"
Bucket ==
    <<"p","l","a","c","e","h","o","l","d","e","r","a","d","s">>

\* "ap-south-1"
Region ==
    <<"a","p","-","s","o","u","t","h","-","1">>

\* "https://"
UrlScheme ==
    <<"h","t","t","p","s",":","/","/">>

\* ".s3."
S3Infix ==
    <<".","s","3",".">>

\* ".amazonaws.com/"
AmazonSuffix ==
    <<".","a","m","a","z","o","n","a","w","s",".","c","o","m","/">>

\* "https://placeholderads.s3.ap-south-1.amazonaws.com/"
S3UrlPrefix ==
    <<"h","t","t","p","s",":","/","/","p","l","a","c","e","h","o","l","d","e","r","a","d","s",
      ".","s","3",".","a","p","-","s","o","u","t","h","-","1",".","a","m","a","z","o","n","a",
      "w","s",".","c","o","m","/">>

\* "image/png"
ContentTypePng ==
    <<"i","m","a","g","e","/","p","n","g">>

\* "S3 upload failed: "
S3UploadFailedPrefix ==
    <<"S","3"," ","u","p","l","o","a","d"," ","f","a","i","l","e","d",":"," ">>

\* "Unknown error"
UnknownErrorText ==
    <<"U","n","k","n","o","w","n"," ","e","r","r","o","r">>

RandomRange == 10000

UploadIds ==
    1..MaxUploads

ImageUrls ==
    { <<"a">>, <<"b">> }

\* response.data of a resolved axios.get: whatever the server sent
Payloads ==
    { [contentType |-> "image/png", data |-> "png-bytes"],
      [contentType |-> "text/html", data |-> "html-bytes"] }

\* values Math.floor(Math.random() * 10000) can take
RandomSamples ==
    {0, RandomRange - 1}

Digit(d) ==
    <<"0","1","2","3","4","5","6","7","8","9">>[d + 1]

RECURSIVE ToDecimal(_)
\* `${n}` for a non-negative integer
ToDecimal(n) ==
    IF n < 10 THEN <<Digit(n)>> ELSE ToDecimal(n \div 10) \o <<Digit(n % 10)>>

\* `ad-images/${Date.now()}-${Math.floor(Math.random() * 10000)}.png`
ObjectKey(t, r) ==
    KeyPrefix \o ToDecimal(t) \o <<"-">> \o ToDecimal(r) \o KeyExtension

\* mutant: the key is kept in a variable shared by all calls
S3UrlSharedKey(i) ==
    LET js == {j \in UploadIds : objectKey[j] # <<>>}
        last == CHOOSE j \in js : \A k \in js : k <= j
    IN  S3UrlPrefix \o objectKey[last]

\* `https://placeholderads.s3.ap-south-1.amazonaws.com/${objectKey}`
S3Url(i) ==
    S3UrlPrefix \o objectKey[i]

\* throw new Error(`S3 upload failed: ${error instanceof Error ? ... }`)
UploadError(error) ==
    ErrorValue(S3UploadFailedPrefix \o
               (IF error.instanceOfError THEN error.message ELSE UnknownErrorText))

UploadRequest(i, key, body) ==
    [call |-> i, Bucket |-> Bucket, Key |-> key, Body |-> body,
     ContentType |-> ContentTypePng]

\* the promise returned by axios.get(imageUrl, { responseType: "arraybuffer" })
NoRequest ==
    [state |-> "none", contentType |-> "", data |-> ""]

AxiosPending ==
    [state |-> "pending", contentType |-> "", data |-> ""]

AxiosResolved(payload) ==
    [state |-> "resolved", contentType |-> payload.contentType, data |-> payload.data]

AxiosRejected ==
    [state |-> "rejected", contentType |-> "", data |-> ""]

\* mutant: the tool handler catches and reports the failure as its result
S3UploadToolFuncCatches(outcome) ==
    IF outcome.kind = "throw" THEN Returned(outcome.error.message) ELSE outcome

\* func of the upload_to_s3 tool:
\*   const s3Url = await uploadImageUrlToS3(dallEImageUrl); return s3Url;
\* there is no try/catch, so the promise of the handler settles as the awaited one
S3UploadToolFunc(outcome) ==
    outcome

\* how the call and the tool handler awaiting it settle
Settle(i, outcome) ==
    /\ upResult' = [upResult EXCEPT ![i] = outcome]
    /\ toolResult' = [toolResult EXCEPT ![i] = S3UploadToolFunc(outcome)]

\* mutant: a URL uploaded before is answered from the earlier call and not
\* fetched again
uploadImageUrlToS3Deduplicated(i, url) ==
    /\ upPc[i] = "idle"
    /\ \A j \in 1..(i - 1) : upPc[j] # "idle"
    /\ imageUrl' = [imageUrl EXCEPT ![i] = url]
    /\ IF \E j \in UploadIds : upPc[j] = "returned" /\ imageUrl[j] = url
         THEN LET j == CHOOSE j \in UploadIds : upPc[j] = "returned" /\ imageUrl[j] = url
              IN  /\ Settle(i, upResult[j])
                  /\ upPc' = [upPc EXCEPT ![i] = "returned"]
                  /\ UNCHANGED <<fetchLog, response>>
         ELSE /\ fetchLog' = Append(fetchLog, [call |-> i, url |-> url])
              /\ response' = [response EXCEPT ![i] = AxiosPending]
              /\ upPc' = [upPc EXCEPT ![i] = "fetching"]
              /\ UNCHANGED <<upResult, toolResult>>
    /\ UNCHANGED <<outsideUpload, fileBuffer, objectKey, now, s3Requests, stored, writeDone>>

\* the call up to its first await: axios.get is issued
uploadImageUrlToS3(i, url) ==
    /\ upPc[i] = "idle"
    /\ \A j \in 1..(i - 1) : upPc[j] # "idle"
    /\ imageUrl' = [imageUrl EXCEPT ![i] = url]
    /\ fetchLog' = Append(fetchLog, [call |-> i, url |-> url])
    /\ response' = [response EXCEPT ![i] = AxiosPending]
    /\ upPc' = [upPc EXCEPT ![i] = "fetching"]
    /\ UNCHANGED <<outsideUpload, fileBuffer, objectKey, upResult, toolResult, now, s3Requests,
                   stored, writeDone>>

\* await axios.get resolves: buffer, key, and s3.upload is issued
FetchResolves(i, payload, r) ==
    /\ upPc[i] = "fetching"
    /\ response' = [response EXCEPT ![i] = AxiosResolved(payload)]
    /\ fileBuffer' = [fileBuffer EXCEPT ![i] = payload.data]
    /\ objectKey' = [objectKey EXCEPT ![i] = ObjectKey(now, r)]
    /\ s3Requests' = Append(s3Requests, UploadRequest(i, ObjectKey(now, r), payload.data))
    /\ upPc' = [upPc EXCEPT ![i] = "uploading"]
    /\ UNCHANGED <<outsideUpload, imageUrl, upResult, toolResult, now, fetchLog, stored,
                   writeDone>>

\* mutant: the catch block falls back to uploading an empty object
FetchThrowsThenUploads(i, e) ==
    /\ upPc[i] = "fetching"
    /\ response' = [response EXCEPT ![i] = AxiosRejected]
    /\ objectKey' = [objectKey EXCEPT ![i] = ObjectKey(now, 0)]
    /\ s3Requests' = Append(s3Requests, UploadRequest(i, ObjectKey(now, 0), ""))
    /\ Settle(i, Rejected(UploadError(e)))
    /\ upPc' = [upPc EXCEPT ![i] = "thrown"]
    /\ UNCHANGED <<outsideUpload, imageUrl, fileBuffer, now, fetchLog, stored, writeDone>>

\* await axios.get throws (network error, HTTP status outside 2xx)
FetchThrows(i, e) ==
    /\ upPc[i] = "fetching"
    /\ response' = [response EXCEPT ![i] = AxiosRejected]
    /\ Settle(i, Rejected(UploadError(e)))
    /\ upPc' = [upPc EXCEPT ![i] = "thrown"]
    /\ UNCHANGED <<outsideUpload, imageUrl, fileBuffer, objectKey, now, fetchLog, s3Requests,
                   stored, writeDone>>

\* the storage service completes the write of the call's request
S3Stores(i) ==
    /\ upPc[i] = "uploading"
    /\ ~writeDone[i]
    /\ stored' = Append(stored, [Key |-> objectKey[i], Body |-> fileBuffer[i], call |-> i])
    /\ writeDone' = [writeDone EXCEPT ![i] = TRUE]
    /\ UNCHANGED <<outsideUpload, upPc, imageUrl, response, fileBuffer, objectKey, upResult,
                   toolResult, now, fetchLog, s3Requests>>

\* await s3.upload(...).promise() resolves: the URL is returned
UploadResolves(i) ==
    /\ upPc[i] = "uploading"
    /\ writeDone[i]
    /\ Settle(i, Returned(S3Url(i)))
    /\ upPc' = [upPc EXCEPT ![i] = "returned"]
    /\ UNCHANGED <<outsideUpload, imageUrl, response, fileBuffer, objectKey, now, fetchLog,
                   s3Requests, stored, writeDone>>

\* await s3.upload(...).promise() throws
UploadThrows(i, e) ==
    /\ upPc[i] = "uploading"
    /\ ~writeDone[i]
    /\ Settle(i, Rejected(UploadError(e)))
    /\ upPc' = [upPc EXCEPT ![i] = "thrown"]
    /\ UNCHANGED <<outsideUpload, imageUrl, response, fileBuffer, objectKey, now, fetchLog,
                   s3Requests, stored, writeDone>>

\* a millisecond passes
Tick ==
    /\ now < MaxClock
    /\ now' = now + 1
    /\ UNCHANGED <<outsideUpload, upPc, imageUrl, response, fileBuffer, objectKey, upResult,
                   toolResult, fetchLog, s3Requests, stored, writeDone>>

UploadIdle ==
    /\ upPc = [i \in UploadIds |-> "idle"]
    /\ imageUrl = [i \in UploadIds |-> <<>>]
    /\ response = [i \in UploadIds |-> NoRequest]
    /\ fileBuffer = [i \in UploadIds |-> ""]
    /\ objectKey = [i \in UploadIds |-> <<>>]
    /\ upResult = [i \in UploadIds |-> Pending]
    /\ toolResult = [i \in UploadIds |-> Pending]
    /\ now = 0
    /\ fetchLog = <<>>
    /\ s3Requests = <<>>
    /\ stored = <<>>
    /\ writeDone = [i \in UploadIds |-> FALSE]

-----------------------------------------------------------------------------
(* The process: validateEnvironment, main, initializeAgent, chooseMode and  *)
(* the two interaction loops                                                *)

\* "OPENAI_API_KEY"
OPENAI_API_KEY ==
    <<"O","P","E","N","A","I","_","A","P","I","_","K","E","Y">>

\* "CDP_API_KEY_NAME"
CDP_API_KEY_NAME ==
    <<"C","D","P","_","A","P","I","_","K","E","Y","_","N","A","M","E">>

\* "CDP_API_KEY_PRIVATE_KEY"
CDP_API_KEY_PRIVATE_KEY ==
    <<"C","D","P","_","A","P","I","_","K","E","Y","_","P","R","I","V","A","T","E","_","K","E",
      "Y">>

\* "NETWORK_ID"
NETWORK_ID ==
    <<"N","E","T","W","O","R","K","_","I","D">>

\* "Error: Required environment variables are not set"
MissingHeader ==
    <<"E","r","r","o","r",":"," ","R","e","q","u","i","r","e","d"," ","e","n","v","i","r","o",
      "n","m","e","n","t"," ","v","a","r","i","a","b","l","e","s"," ","a","r","e"," ","n","o",
      "t"," ","s","e","t">>

\* "=your_"
YourInfix ==
    <<"=","y","o","u","r","_">>

\* "_here"
HereSuffix ==
    <<"_","h","e","r","e">>

\* "Warning: NETWORK_ID not set, defaulting to base-sepolia testnet"
NetworkWarning ==
    <<"W","a","r","n","i","n","g",":"," ","N","E","T","W","O","R","K","_","I","D"," ","n","o",
      "t"," ","s","e","t",","," ","d","e","f","a","u","l","t","i","n","g"," ","t","o"," ","b",
      "a","s","e","-","s","e","p","o","l","i","a"," ","t","e","s","t","n","e","t">>

\* "Error: "
ErrorLabel ==
    <<"E","r","r","o","r",":"," ">>

\* "Failed to initialize agent:"
InitFailedLine ==
    <<"F","a","i","l","e","d"," ","t","o"," ","i","n","i","t","i","a","l","i","z","e"," ","a",
      "g","e","n","t",":">>

\* "Error reading wallet data:"
ReadFailedLine ==
    <<"E","r","r","o","r"," ","r","e","a","d","i","n","g"," ","w","a","l","l","e","t"," ","d",
      "a","t","a",":">>

\* "-------------------"
Separator ==
    <<"-","-","-","-","-","-","-","-","-","-","-","-","-","-","-","-","-","-","-">>

\* "Be creative and do something interesting on the blockchain. Choose an action or set of actions and execute it that highlights your abilities."
Thought ==
    <<"B","e"," ","c","r","e","a","t","i","v","e"," ","a","n","d"," ","d","o"," ","s","o","m",
      "e","t","h","i","n","g"," ","i","n","t","e","r","e","s","t","i","n","g"," ","o","n"," ",
      "t","h","e"," ","b","l","o","c","k","c","h","a","i","n","."," ","C","h","o","o","s","e",
      " ","a","n"," ","a","c","t","i","o","n"," ","o","r"," ","s","e","t"," ","o","f"," ","a",
      "c","t","i","o","n","s"," ","a","n","d"," ","e","x","e","c","u","t","e"," ","i","t"," ",
      "t","h","a","t"," ","h","i","g","h","l","i","g","h","t","s"," ","y","o","u","r"," ","a",
      "b","i","l","i","t","i","e","s",".">>

\* "exit"
ExitWord ==
    <<"e","x","i","t">>

requiredVars ==
    <<OPENAI_API_KEY, CDP_API_KEY_NAME, CDP_API_KEY_PRIVATE_KEY>>

EnvNames ==
    {OPENAI_API_KEY, CDP_API_KEY_NAME, CDP_API_KEY_PRIVATE_KEY, NETWORK_ID}

\* process.env[name]: undefined, or a string that may be empty
EnvUnset ==
    [defined |-> FALSE, value |-> <<>>]

EnvString(x) ==
    [defined |-> TRUE, value |-> x]

EnvValues ==
    {EnvUnset, EnvString(<<>>), EnvString(<<"k">>)}

Environments ==
    {e \in [EnvNames -> EnvValues] : e[NETWORK_ID] # EnvString(<<>>)}

\* !process.env[varName]
EnvFalsy(x) ==
    ~x.defined \/ x.value = <<>>

\* mutant: only undefined counts as missing
MissingVarsUndefinedOnly(e) ==
    SelectSeq(requiredVars, LAMBDA n : ~e[n].defined)

\* requiredVars.forEach: the names pushed to missingVars, in order
MissingVars(e) ==
    SelectSeq(requiredVars, LAMBDA n : EnvFalsy(e[n]))

\* `${varName}=your_${varName.toLowerCase()}_here`
MissingLine(varName) ==
    varName \o YourInfix \o ToLowerCase(varName) \o HereSuffix

WALLET_DATA_FILE ==
    "wallet_data.txt"

NoFile ==
    [exists |-> FALSE, content |-> <<>>]

FileWith(c) ==
    [exists |-> TRUE, content |-> c]

StoredBlob ==
    <<"o","l","d">>

ExportedBlob ==
    <<"n","e","w">>

WalletFiles ==
    {NoFile, FileWith(<<>>), FileWith(StoredBlob)}

NoConfig ==
    [configured |-> FALSE, cdpWalletData |-> EnvUnset, networkId |-> ""]

\* mutant: the config carries no networkId, leaving the network to the SDK
ConfigWithoutNetwork(data) ==
    [configured |-> TRUE,
     cdpWalletData |-> IF EnvFalsy(data) THEN EnvUnset ELSE data,
     networkId |-> ""]

\* mutant: without `|| undefined` an empty blob is passed on as it was read
ConfigKeepsEmpty(data) ==
    [configured |-> TRUE,
     cdpWalletData |-> data,
     networkId |-> "base-sepolia"]

\* { cdpWalletData: walletDataStr || undefined, networkId: "base-sepolia" }
Config(data) ==
    [configured |-> TRUE,
     cdpWalletData |-> IF EnvFalsy(data) THEN EnvUnset ELSE data,
     networkId |-> "base-sepolia"]

\* the names of the tools pushed to allTools
ToolList(v) ==
    IF v = "part_001"
      THEN <<"cdpToolkit.getTools", "dallETool", "publish_ad">>
      ELSE <<"cdpToolkit.getTools", "dallETool", "upload_to_s3", "create_ad">>

\* if (error instanceof Error) console.error("Error:", error.message)
ErrorLines(e) ==
    IF e.instanceOfError THEN <<ErrorLabel \o e.message>> ELSE <<>>

Exit(code, site) ==
    /\ pc' = "exited"
    /\ exitCode' = code
    /\ exitSite' = site

Running ==
    UNCHANGED <<exitCode, exitSite>>

startupVars ==
    <<walletFile, fileOps, walletDataStr, sdkConfig, allTools>>

loopVars ==
    <<mode, choice, chatReads, sent, nChunks, printed, arrived, loopError>>

\* mutant: the listing is printed but process.exit(1) is missing
validateEnvironmentWarnsOnly ==
    /\ pc = "load"
    /\ LET missingVars == MissingVars(env)
       IN  stderr' = IF Len(missingVars) > 0
                       THEN stderr \o <<MissingHeader>> \o
                              [i \in 1..Len(missingVars) |-> MissingLine(missingVars[i])]
                       ELSE IF EnvFalsy(env[NETWORK_ID])
                              THEN Append(stderr, NetworkWarning)
                              ELSE stderr
    /\ pc' = "main"
    /\ Running
    /\ UNCHANGED <<outsideProc, env, startupVars, loopVars>>

\* validateEnvironment(), called when the module is loaded
validateEnvironment ==
    /\ pc = "load"
    /\ LET missingVars == MissingVars(env)
       IN  IF Len(missingVars) > 0
             THEN /\ stderr' = stderr \o <<MissingHeader>> \o
                                 [i \in 1..Len(missingVars) |-> MissingLine(missingVars[i])]
                  /\ Exit(1, "validateEnvironment")
             ELSE /\ stderr' = IF EnvFalsy(env[NETWORK_ID])
                                 THEN Append(stderr, NetworkWarning)
                                 ELSE stderr
                  /\ pc' = "main"
                  /\ Running
    /\ UNCHANGED <<outsideProc, env, startupVars, loopVars>>

\* the catch of initializeAgent re-throws, the catch of main exits
InitFails(e) ==
    /\ stderr' = stderr \o <<InitFailedLine>> \o ErrorLines(e)
    /\ Exit(1, "main")

\* main() -> initializeAgent() up to its first await: the credential file is
\* read and CdpAgentkit.configureWithWallet is called
initializeAgent(readable) ==
    /\ pc = "main"
    /\ IF walletFile.exists
         THEN IF readable
                THEN /\ fileOps' = fileOps \o <<"existsSync", "readFileSync",
                                               "configureWithWallet">>
                     /\ walletDataStr' = EnvString(walletFile.content)
                     /\ sdkConfig' = Config(EnvString(walletFile.content))
                     /\ stderr' = stderr
                ELSE /\ fileOps' = fileOps \o <<"existsSync", "readFileSync",
                                               "configureWithWallet">>
                     /\ walletDataStr' = EnvUnset
                     /\ sdkConfig' = Config(EnvUnset)
                     /\ stderr' = Append(stderr, ReadFailedLine)
         ELSE /\ fileOps' = fileOps \o <<"existsSync", "configureWithWallet">>
              /\ walletDataStr' = EnvUnset
              /\ sdkConfig' = Config(EnvUnset)
              /\ stderr' = stderr
    /\ pc' = "configuring"
    /\ Running
    /\ UNCHANGED <<outsideProc, env, walletFile, allTools, loopVars>>

\* mutant: createS3UploadTool probes the uploader while the tool is built
ConfigureResolvesProbesUpload ==
    /\ pc = "configuring"
    /\ allTools' = ToolList(variant)
    /\ fileOps' = Append(fileOps, "exportWallet")
    /\ fetchLog' = Append(fetchLog, [call |-> 1, url |-> <<"a">>])
    /\ pc' = "exporting"
    /\ Running
    /\ UNCHANGED <<variant, invokeVars, upPc, imageUrl, response, fileBuffer, objectKey,
                   upResult, toolResult, now, s3Requests, stored, writeDone, env, stderr,
                   walletFile, walletDataStr, sdkConfig, loopVars>>

\* await configureWithWallet resolves: the tools and the agent are built and
\* agentkit.exportWallet is called
ConfigureResolves ==
    /\ pc = "configuring"
    /\ allTools' = ToolList(variant)
    /\ fileOps' = Append(fileOps, "exportWallet")
    /\ pc' = "exporting"
    /\ Running
    /\ UNCHANGED <<outsideProc, env, stderr, walletFile, walletDataStr, sdkConfig, loopVars>>

\* await configureWithWallet throws, or a constructor after it throws
ConfigureThrows(e) ==
    /\ pc = "configuring"
    /\ InitFails(e)
    /\ UNCHANGED <<outsideProc, env, startupVars, loopVars>>

\* await exportWallet resolves: the file is written, initializeAgent returns and
\* chooseMode asks its question
ExportResolves ==
    /\ pc = "exporting"
    /\ walletFile' = FileWith(ExportedBlob)
    /\ fileOps' = Append(fileOps, "writeFileSync")
    /\ pc' = "chooseMode"
    /\ Running
    /\ UNCHANGED <<outsideProc, env, stderr, walletDataStr, sdkConfig, allTools, loopVars>>

\* mutant: the file is opened for writing before the export, so a failed
\* export leaves it empty
ExportThrowsAfterTruncate(e) ==
    /\ pc = "exporting"
    /\ walletFile' = FileWith(<<>>)
    /\ InitFails(e)
    /\ UNCHANGED <<outsideProc, env, fileOps, walletDataStr, sdkConfig, allTools, loopVars>>

\* await exportWallet throws
ExportThrows(e) ==
    /\ pc = "exporting"
    /\ InitFails(e)
    /\ UNCHANGED <<outsideProc, env, startupVars, loopVars>>

\* fs.writeFileSync throws: the file is untouched or left truncated
WriteThrows(e, truncated) ==
    /\ pc = "exporting"
    /\ walletFile' = IF truncated THEN FileWith(<<>>) ELSE walletFile
    /\ fileOps' = Append(fileOps, "writeFileSync")
    /\ InitFails(e)
    /\ UNCHANGED <<outsideProc, env, walletDataStr, sdkConfig, allTools, loopVars>>

ModeLines ==
    { <<"1">>, <<" ","C","h","a","t"," ">>, <<"2">>, <<"A","U","T","O">>, <<"3">> }

\* agent.stream({ messages: [new HumanMessage(text)] }, config) is called
Send(text) ==
    /\ sent' = Append(sent, text)
    /\ nChunks' = 0

\* mutant: the line is compared as typed, without trim and toLowerCase
chooseModeUntrimmed(line) ==
    /\ pc = "chooseMode"
    /\ choice' = line
    /\ IF line = <<"1">> \/ line = <<"c","h","a","t">>
         THEN /\ mode' = "chat"
              /\ pc' = "chatPrompt"
              /\ UNCHANGED <<sent, nChunks>>
         ELSE IF line = <<"2">> \/ line = <<"a","u","t","o">>
                THEN /\ mode' = "auto"
                     /\ pc' = "awaitStream"
                     /\ Send(Thought)
                ELSE /\ mode' = mode
                     /\ pc' = "chooseMode"
                     /\ UNCHANGED <<sent, nChunks>>
    /\ Running
    /\ UNCHANGED <<outsideProc, env, stderr, startupVars, chatReads, printed, arrived,
                   loopError>>

\* chooseMode reads a line; a recognized one starts the loop it names
chooseMode(line) ==
    /\ pc = "chooseMode"
    /\ choice' = line
    /\ LET c == Trim(ToLowerCase(line))
       IN  IF c = <<"1">> \/ c = <<"c","h","a","t">>
             THEN /\ mode' = "chat"
                  /\ pc' = "chatPrompt"
                  /\ UNCHANGED <<sent, nChunks>>
             ELSE IF c = <<"2">> \/ c = <<"a","u","t","o">>
                    THEN /\ mode' = "auto"
                         /\ pc' = "awaitStream"
                         /\ Send(Thought)
                    ELSE /\ mode' = mode
                         /\ pc' = "chooseMode"
                         /\ UNCHANGED <<sent, nChunks>>
    /\ Running
    /\ UNCHANGED <<outsideProc, env, stderr, startupVars, chatReads, printed, arrived,
                   loopError>>

ChatLines ==
    { ExitWord, <<"E","x","I","T">>, <<" ","e","x","i","t">>, <<"h","i">> }

\* mutant: the line is trimmed before the comparison, as chooseMode does
IsExitTrimmed(userInput) ==
    Trim(ToLowerCase(userInput)) = ExitWord

\* userInput.toLowerCase() === "exit"
IsExit(userInput) ==
    ToLowerCase(userInput) = ExitWord

\* mutant: a line typed while the stream is being consumed is taken at once
ChatReadWhileStreaming(userInput) ==
    /\ pc \in {"chatPrompt", "streaming"}
    /\ mode = "chat"
    /\ Len(chatReads) < MaxReads
    /\ chatReads' = Append(chatReads, userInput)
    /\ IF ToLowerCase(userInput) = ExitWord
         THEN /\ Exit(0, "end")
              /\ UNCHANGED <<sent, nChunks>>
         ELSE /\ pc' = "awaitStream"
              /\ Send(userInput)
              /\ Running
    /\ UNCHANGED <<outsideProc, env, stderr, startupVars, mode, choice, printed, arrived,
                   loopError>>

\* runChatMode: question resolves with a line; "exit" breaks, rl is closed and
\* the process ends; anything else is passed to agent.stream
ChatRead(userInput) ==
    /\ pc = "chatPrompt"
    /\ Len(chatReads) < MaxReads
    /\ chatReads' = Append(chatReads, userInput)
    /\ IF IsExit(userInput)
         THEN /\ Exit(0, "end")
              /\ UNCHANGED <<sent, nChunks>>
         ELSE /\ pc' = "awaitStream"
              /\ Send(userInput)
              /\ Running
    /\ UNCHANGED <<outsideProc, env, stderr, startupVars, mode, choice, printed, arrived,
                   loopError>>

\* await agent.stream(...) resolves with the stream
StreamOpens ==
    /\ pc = "awaitStream"
    /\ pc' = "streaming"
    /\ Running
    /\ UNCHANGED <<outsideProc, env, stderr, startupVars, loopVars>>

Chunks ==
    { [tag |-> "agent", content |-> <<"a">>],
      [tag |-> "tools", content |-> <<"t">>],
      [tag |-> "other", content |-> <<"o">>] }

\* mutant: the `else if ("tools" in chunk)` branch is missing
ChunkOutputAgentOnly(chunk) ==
    (IF chunk.tag = "agent"
       THEN <<[request |-> Len(sent), text |-> chunk.content]>>
       ELSE <<>>)
      \o <<[request |-> Len(sent), text |-> Separator]>>

\* the console.log calls of one iteration of `for await (const chunk of stream)`
ChunkOutput(chunk) ==
    (IF chunk.tag \in {"agent", "tools"}
       THEN <<[request |-> Len(sent), text |-> chunk.content]>>
       ELSE <<>>)
      \o <<[request |-> Len(sent), text |-> Separator]>>

\* the stream yields a chunk
StreamChunk(chunk) ==
    /\ pc = "streaming"
    /\ nChunks < MaxChunks
    /\ nChunks' = nChunks + 1
    /\ arrived' = Append(arrived, [request |-> Len(sent), tag |-> chunk.tag,
                                    content |-> chunk.content])
    /\ printed' = printed \o ChunkOutput(chunk)
    /\ Running
    /\ UNCHANGED <<outsideProc, pc, env, stderr, startupVars, mode, choice, chatReads, sent,
                   loopError>>

\* mutant: runChatMode returns after the first response instead of looping
StreamEndsChatReturns ==
    /\ pc = "streaming"
    /\ IF mode = "chat"
         THEN Exit(0, "end")
         ELSE pc' = "sleeping" /\ Running
    /\ UNCHANGED <<outsideProc, env, stderr, startupVars, loopVars>>

\* mutant: the wallet is exported and saved again after every turn
StreamEndsSavesWallet ==
    /\ pc = "streaming"
    /\ pc' = IF mode = "chat" THEN "chatPrompt" ELSE "sleeping"
    /\ walletFile' = FileWith(ExportedBlob)
    /\ fileOps' = fileOps \o <<"exportWallet", "writeFileSync">>
    /\ Running
    /\ UNCHANGED <<outsideProc, env, stderr, walletDataStr, sdkConfig, allTools, loopVars>>

\* the stream ends: chat mode asks again, autonomous mode starts its sleep
StreamEnds ==
    /\ pc = "streaming"
    /\ pc' = IF mode = "chat" THEN "chatPrompt" ELSE "sleeping"
    /\ Running
    /\ UNCHANGED <<outsideProc, env, stderr, startupVars, loopVars>>

\* mutant: the catch block exits only for Error instances; any other thrown
\* value is dropped and the loop goes on
StreamThrowsSwallowed(e) ==
    /\ pc \in {"awaitStream", "streaming"}
    /\ loopError' = e
    /\ stderr' = stderr \o ErrorLines(e)
    /\ IF e.instanceOfError
         THEN Exit(1, IF mode = "chat" THEN "runChatMode" ELSE "runAutonomousMode")
         ELSE /\ pc' = IF mode = "chat" THEN "chatPrompt" ELSE "sleeping"
              /\ Running
    /\ UNCHANGED <<outsideProc, env, startupVars, mode, choice, chatReads, sent, nChunks,
                   printed, arrived>>

\* agent.stream or the iteration of its stream throws: the catch of the loop
StreamThrows(e) ==
    /\ pc \in {"awaitStream", "streaming"}
    /\ loopError' = e
    /\ stderr' = stderr \o ErrorLines(e)
    /\ Exit(1, IF mode = "chat" THEN "runChatMode" ELSE "runAutonomousMode")
    /\ UNCHANGED <<outsideProc, env, startupVars, mode, choice, chatReads, sent, nChunks,
                   printed, arrived>>

\* mutant: the loop body runs once (no `while (true)`), then main returns
SleepElapsesOnce ==
    /\ pc = "sleeping"
    /\ Len(sent) < MaxSends
    /\ Exit(0, "end")
    /\ UNCHANGED <<outsideProc, env, stderr, startupVars, loopVars>>

\* the setTimeout of runAutonomousMode fires: the next iteration sends again
SleepElapses ==
    /\ pc = "sleeping"
    /\ Len(sent) < MaxSends
    /\ pc' = "awaitStream"
    /\ Send(Thought)
    /\ Running
    /\ UNCHANGED <<outsideProc, env, stderr, startupVars, mode, choice, chatReads, printed,
                   arrived, loopError>>

ProcIdle ==
    /\ pc = "load"
    /\ env = [n \in EnvNames |-> EnvString(<<"k">>)]
    /\ exitCode = -1
    /\ exitSite = "none"
    /\ stderr = <<>>
    /\ printed = <<>>
    /\ walletFile = NoFile
    /\ fileOps = <<>>
    /\ walletDataStr = EnvUnset
    /\ sdkConfig = NoConfig
    /\ allTools = <<>>
    /\ mode = "none"
    /\ choice = <<>>
    /\ chatReads = <<>>
    /\ sent = <<>>
    /\ nChunks = 0
    /\ arrived = <<>>
    /\ loopError = NoThrown

InvokeIdle ==
    /\ pcInvoke = "idle"
    /\ method = <<>>
    /\ abi = <<>>
    /\ args = [text |-> <<>>]
    /\ thrown = NoThrown
    /\ txHash = UndefinedHash
    /\ result = Pending
    /\ calls = <<>>
    /\ walletLog = <<>>
    /\ nInvoked = 0
    /\ viaTool = FALSE

InitInvoke ==
    /\ variant \in Variants
    /\ InvokeIdle
    /\ UploadIdle
    /\ ProcIdle

DirectInvoke ==
    \E m \in MethodInputs, a \in AbiInputs, ar \in ArgsInputs(variant) :
        /\ invokeContract(AD_CONTRACT_ADDRESS(variant), m, a, ar)
        /\ viaTool' = FALSE

ToolInvoke ==
    \E ar \in SchemaArgs(variant) : invokeContractTool([args |-> ar])

SubmissionFails ==
    \E e \in ThrownValues : SubmissionThrows(e)

ReceiptArrives ==
    \E h \in TransactionHashes : WaitResolves(h)

WaitFails ==
    \E e \in ThrownValues : WaitThrows(e)

NextInvoke ==
    \/ DirectInvoke
    \/ ToolInvoke
    \/ SubmissionResolves
    \/ SubmissionFails
    \/ ReceiptArrives
    \/ WaitFails

SpecInvoke ==
    InitInvoke /\ [][NextInvoke]_vars

InitUpload ==
    /\ variant \in Variants \ {"part_001"}
    /\ InvokeIdle
    /\ UploadIdle
    /\ ProcIdle

UploadStarts ==
    \E i \in UploadIds, url \in ImageUrls : uploadImageUrlToS3(i, url)

FetchArrives ==
    \E i \in UploadIds, payload \in Payloads, r \in RandomSamples : FetchResolves(i, payload, r)

FetchFails ==
    \E i \in UploadIds, e \in LibraryThrownValues : FetchThrows(i, e)

StorageWrites ==
    \E i \in UploadIds : S3Stores(i)

UploadSucceeds ==
    \E i \in UploadIds : UploadResolves(i)

UploadFails ==
    \E i \in UploadIds, e \in LibraryThrownValues : UploadThrows(i, e)

NextUpload ==
    \/ UploadStarts
    \/ FetchArrives
    \/ FetchFails
    \/ StorageWrites
    \/ UploadSucceeds
    \/ UploadFails
    \/ Tick

SpecUpload ==
    InitUpload /\ [][NextUpload]_vars

Init ==
    /\ variant \in Variants
    /\ InvokeIdle
    /\ UploadIdle
    /\ pc = "load"
    /\ env \in Environments
    /\ exitCode = -1
    /\ exitSite = "none"
    /\ stderr = <<>>
    /\ printed = <<>>
    /\ walletFile \in WalletFiles
    /\ fileOps = <<>>
    /\ walletDataStr = EnvUnset
    /\ sdkConfig = NoConfig
    /\ allTools = <<>>
    /\ mode = "none"
    /\ choice = <<>>
    /\ chatReads = <<>>
    /\ sent = <<>>
    /\ nChunks = 0
    /\ arrived = <<>>
    /\ loopError = NoThrown

InitializeAgentStarts ==
    \E readable \in BOOLEAN : initializeAgent(readable)

ConfigureFails ==
    \E e \in LibraryThrownValues : ConfigureThrows(e)

ExportFails ==
    \E e \in LibraryThrownValues : ExportThrows(e)

WriteFails ==
    \E e \in LibraryThrownValues, truncated \in BOOLEAN : WriteThrows(e, truncated)

ModeChosen ==
    \E line \in ModeLines : chooseMode(line)

ChatLineRead ==
    \E line \in ChatLines : ChatRead(line)

ChunkArrives ==
    \E chunk \in Chunks : StreamChunk(chunk)

StreamFails ==
    \E e \in LibraryThrownValues : StreamThrows(e)

Next ==
    \/ validateEnvironment
    \/ InitializeAgentStarts
    \/ ConfigureResolves
    \/ ConfigureFails
    \/ ExportResolves
    \/ ExportFails
    \/ WriteFails
    \/ ModeChosen
    \/ ChatLineRead
    \/ StreamOpens
    \/ ChunkArrives
    \/ StreamEnds
    \/ StreamFails
    \/ SleepElapses

Spec ==
    Init /\ [][Next]_vars

\* the process when every agent.stream call resolves, every stream ends and
\* every timer fires
FairSpec ==
    /\ Spec
    /\ WF_vars(StreamOpens)
    /\ WF_vars(StreamEnds)
    /\ WF_vars(SleepElapses)

\* the agent runtime is working on a request: tools are called only then
AgentRunning ==
    pc = "streaming"

ToolRegistered(name) ==
    \E k \in 1..Len(allTools) : allTools[k] = name

\* no tool call of the agent is in flight
ToolsQuiet ==
    /\ pcInvoke \in {"idle", "returned"}
    /\ \A i \in UploadIds : upPc[i] \in {"idle", "returned", "thrown"}

InitAgent ==
    /\ variant \in Variants
    /\ InvokeIdle
    /\ UploadIdle
    /\ ProcIdle

\* the process together with the tool calls the agent makes while it works on
\* a request: here the agent calls one tool at a time (concurrent uploads are
\* the subject of SpecUpload), a stream ends once the calls have settled, and
\* the printing of chunks (the subject of Spec) is left out
NextAgent ==
    \/ validateEnvironment
    \/ InitializeAgentStarts
    \/ ConfigureResolves
    \/ ConfigureFails
    \/ ExportResolves
    \/ ExportFails
    \/ WriteFails
    \/ ModeChosen
    \/ ChatLineRead
    \/ StreamOpens
    \/ (ToolsQuiet /\ StreamEnds)
    \/ StreamFails
    \/ SleepElapses
    \/ (AgentRunning /\ ToolsQuiet /\ ToolRegistered("upload_to_s3")
          /\ \E i \in UploadIds : uploadImageUrlToS3(i, <<"a">>))
    \/ (AgentRunning
          /\ \E i \in UploadIds :
                FetchResolves(i, [contentType |-> "image/png", data |-> "png-bytes"], 0))
    \/ (AgentRunning /\ \E i \in UploadIds : FetchThrows(i, ErrorValue(<<"r","e","v","e","r","t">>)))
    \/ (AgentRunning /\ StorageWrites)
    \/ (AgentRunning /\ UploadSucceeds)
    \/ (AgentRunning /\ \E i \in UploadIds : UploadThrows(i, ErrorValue(<<"r","e","v","e","r","t">>)))
    \/ (AgentRunning /\ ToolsQuiet
          /\ (ToolRegistered("create_ad") \/ ToolRegistered("publish_ad"))
          /\ \E ar \in SchemaArgs(variant) :
                ar.to = <<"0","x","d">> /\ invokeContractTool([args |-> ar]))
    \/ (AgentRunning /\ SubmissionResolves)
    \/ (AgentRunning /\ SubmissionThrows(ErrorValue(<<"r","e","v","e","r","t">>)))
    \/ (AgentRunning /\ WaitResolves(HashString(<<"0","x","1">>)))
    \/ (AgentRunning /\ WaitThrows(ErrorValue(<<"r","e","v","e","r","t">>)))

SpecAgent ==
    InitAgent /\ [][NextAgent]_vars

-----------------------------------------------------------------------------
(* Properties of invokeContract (checked under SpecInvoke) *)

Settled ==
    pcInvoke = "returned"

\* the receipt wait resolved and the hash was read
ReceiptRead ==
    Settled /\ Len(calls) = 3 /\ calls[3] = GetHashCall

\* the submission or the receipt wait threw
CallThrew ==
    Settled /\ thrown # NoThrown /\ Len(calls) \in {1, 2}

NoEntryNamed(a, m) ==
    \A i \in 1..Len(a) : a[i].name # m

HashPresent ==
    txHash.defined /\ txHash.value # <<>>

\* the input names of an ABI entry
InputNames(entry) ==
    {entry.inputs[i].name : i \in 1..Len(entry.inputs)}

\* C1: invokeContract never rejects: whatever the lookup, the submission, the
\* receipt wait and the hash do, the promise it returns is never rejected, and
\* once the call has settled it has returned a string.
C1_NeverRejects ==
    /\ result.kind # "throw"
    /\ Settled => result.kind = "return" /\ result.value \in Seq(STRING)
    /\ pcInvoke \in {"submitted", "waiting"} => result = Pending

\* C1 witness: a call settled after the receipt wait threw a non-Error value
C1_Witness ==
    /\ CallThrew
    /\ Len(calls) = 2
    /\ ~thrown.instanceOfError
    /\ result.kind = "return"

\* C2: a method name that matches no ABI entry yields a failure string
\* containing "not found", and wallet.invokeContract is not called: the
\* invocation makes no external call and no submission is ever logged for a
\* method absent from the ABI it was called with.
C2_MethodNotFound ==
    /\ (nInvoked > 0 /\ NoEntryNamed(abi, method)) =>
          /\ Settled
          /\ result.kind = "return"
          /\ IsPrefix(FailedToPublishAd, result.value)
          /\ Contains(result.value, NotFoundText)
          /\ calls = <<>>
    /\ \A k \in 1..Len(walletLog) :
          ~NoEntryNamed(walletLog[k].abi, walletLog[k].method)

\* C2 witness: a call with an unknown method has settled after an earlier call
\* did submit
C2_Witness ==
    /\ nInvoked = 2
    /\ NoEntryNamed(abi, method)
    /\ abi # <<>>
    /\ Settled
    /\ Len(walletLog) = 1

\* C3: method found, submission and receipt wait resolved, hash h present:
\* the returned string contains the explorer transaction URL followed by h.
C3_SuccessHasTxUrl ==
    (ReceiptRead /\ HashPresent) =>
        /\ result.kind = "return"
        /\ Contains(result.value, ExplorerTxUrl \o txHash.value)

\* C3 witness: a successful call in the publishAd variant
C3_Witness ==
    /\ ReceiptRead
    /\ HashPresent
    /\ variant = "part_001"
    /\ result.kind = "return"

\* C4 as stated: when the submission or the receipt wait throws, the failure
\* string contains the thrown value's message whenever the value exposes a
\* message, and is the generic fallback only when it exposes none.
C4_Original ==
    CallThrew =>
        /\ thrown.hasMessage =>
              /\ IsPrefix(FailedToPublishAd, result.value)
              /\ Contains(result.value, thrown.message)
              /\ result.value # UnknownErrorMessage
        /\ result.value = UnknownErrorMessage => ~thrown.hasMessage

\* C4 amended: the failure string is "Failed to publish ad: " followed by the
\* message exactly when the thrown value is an Error instance; every other
\* thrown value, with or without a message property, yields the fallback.
C4_Amended ==
    CallThrew =>
        /\ result.kind = "return"
        /\ thrown.instanceOfError =>
              /\ result.value = FailedPrefix \o thrown.message
              /\ Contains(result.value, thrown.message)
              /\ result.value # UnknownErrorMessage
        /\ ~thrown.instanceOfError => result.value = UnknownErrorMessage

\* C4 witness: the submission threw a non-Error value that carries a message
C4_Witness ==
    /\ CallThrew
    /\ Len(calls) = 1
    /\ ~thrown.instanceOfError
    /\ thrown.hasMessage
    /\ result.value = UnknownErrorMessage

\* C5: submission and wait succeeded but the hash is absent (undefined or
\* empty): the result is the "completed, but transaction hash is not
\* available" message, which is no success message of any variant and no
\* "Failed to publish ad" message.
C5_NoHashMessage ==
    (ReceiptRead /\ ~HashPresent) =>
        /\ result = Returned(NoHashMessage)
        /\ ~IsPrefix(FailedToPublishAd, result.value)
        /\ result.value # UnknownErrorMessage
        /\ \A v \in Variants, h \in TransactionHashes :
              \A ar \in ArgsInputs(v) : result.value # SuccessMessage(v, h.value, ar)

\* C5 witness: the receipt was read and carried no hash
C5_Witness ==
    /\ ReceiptRead
    /\ ~txHash.defined
    /\ result.value = NoHashMessage

\* C6 as stated: in every variant a successful call returns a message that
\* contains both the transaction hash and args.to.
C6_Original ==
    (ReceiptRead /\ HashPresent /\ "to" \in DOMAIN args) =>
        /\ Contains(result.value, txHash.value)
        /\ Contains(result.value, args.to)

\* C6 amended: in the three createAd variants the success message contains the
\* transaction hash and ends with the marketplace link templated with args.to;
\* in part_001 (publishAd) it contains the hash and ends with it: there is no
\* marketplace link.
C6_Amended ==
    (ReceiptRead /\ HashPresent /\ "to" \in DOMAIN args) =>
        /\ Contains(result.value, txHash.value)
        /\ variant # "part_001" =>
              /\ Contains(result.value, OpenSeaInfix \o args.to)
              /\ Contains(result.value, args.to)
        /\ variant = "part_001" =>
              result.value = AdPublishedPrefix \o ExplorerTxUrl \o txHash.value

\* C6 witness: a successful createAd call whose recipient is no part of the hash
C6_Witness ==
    /\ ReceiptRead
    /\ HashPresent
    /\ variant = "adAgent"
    /\ "to" \in DOMAIN args
    /\ ~Contains(txHash.value, args.to)
    /\ result.kind = "return"

\* C22: in every variant the argument names the tool's schema accepts are the
\* input names of the ABI entry named by the method the tool invokes, and a
\* call made through the tool submits arguments with exactly those names
\* (createAd: to, title, text, imageURL; publishAd: to, text).
C22_SchemaMatchesAbi ==
    /\ \A v \in Variants : \A ar \in SchemaArgs(v) :
          \E k \in 1..Len(AD_CONTRACT_ABI(v)) :
              /\ AD_CONTRACT_ABI(v)[k].name = ToolMethod(v)
              /\ DOMAIN ar = InputNames(AD_CONTRACT_ABI(v)[k])
    /\ (viaTool /\ calls # <<>>) =>
          /\ \E k \in 1..Len(calls[1].abi) :
                /\ calls[1].abi[k].name = calls[1].method
                /\ DOMAIN calls[1].args = InputNames(calls[1].abi[k])
          /\ calls[1].method = createAd =>
                DOMAIN calls[1].args = {"to", "title", "text", "imageURL"}
          /\ calls[1].method = publishAd => DOMAIN calls[1].args = {"to", "text"}

\* C22 witness: the create_ad tool has submitted a call with the four createAd
\* arguments
C22_Witness ==
    /\ viaTool
    /\ variant = "part_000"
    /\ calls # <<>>
    /\ calls[1].method = createAd
    /\ DOMAIN calls[1].args = {"to", "title", "text", "imageURL"}

\* the external calls of the current invocation are lookup-then-submit, then
\* wait, then the hash read, each at most once and in that order
CallsInOrder ==
    (nInvoked > 0 /\ ~NoEntryNamed(abi, method)) =>
        /\ Len(calls) \in 1..3
        /\ calls[1].op = "wallet.invokeContract"
        /\ calls[1].method = method /\ calls[1].args = args /\ calls[1].abi = abi
        /\ Len(calls) >= 2 => calls[2] = WaitCall
        /\ Len(calls) = 3 => calls[3] = GetHashCall
        /\ pcInvoke = "submitted" => Len(calls) = 1
        /\ pcInvoke = "waiting" => Len(calls) = 2
        /\ walletLog # <<>> /\ walletLog[Len(walletLog)] = calls[1]
        /\ (result.kind = "return" /\ Contains(result.value, ExplorerTxUrl)) => ReceiptRead

\* every call whose method is found adds one submission, whatever was
\* submitted before; nothing else adds or removes one
OneSubmissionPerCall ==
    IF nInvoked' # nInvoked
      THEN IF NoEntryNamed(abi', method')
             THEN walletLog' = walletLog
             ELSE /\ Len(walletLog') = Len(walletLog) + 1
                  /\ SubSeq(walletLog', 1, Len(walletLog)) = walletLog
                  /\ walletLog'[Len(walletLog')] = calls'[1]
      ELSE walletLog' = walletLog

\* C24: a call whose method is found submits exactly one transaction, then
\* waits for the receipt at most once, then reads the hash, in this order, and
\* returns the success message only after the wait has resolved; each call
\* submits anew, so two calls with the same arguments submit two transactions.
C24_OneSubmissionInOrder ==
    /\ []CallsInOrder
    /\ [][OneSubmissionPerCall]_vars

\* C24 witness: two calls with identical arguments have submitted two
\* transactions and the second has read its hash
C24_Witness ==
    /\ Len(walletLog) = 2
    /\ walletLog[1] = walletLog[2]
    /\ ReceiptRead
    /\ HashPresent

\* C29: in every variant the method name the tool handler passes is the name
\* of an entry of the variant's ABI table (publishAd in part_001, createAd
\* elsewhere); a call made through the tool therefore always reaches the
\* submission and never yields the "not found in ABI" failure.
C29_ToolMethodInAbi ==
    /\ \A v \in Variants : ~NoEntryNamed(AD_CONTRACT_ABI(v), ToolMethod(v))
    /\ (viaTool /\ nInvoked > 0) =>
          /\ abi = AD_CONTRACT_ABI(variant)
          /\ method = (IF variant = "part_001" THEN publishAd ELSE createAd)
          /\ ~NoEntryNamed(abi, method)
          /\ calls # <<>>
          /\ thrown # MethodNotFoundError(method)
          /\ Settled => ~Contains(result.value, NotFoundSuffix)

\* C29 witness: the publish_ad tool of part_001 has completed a call
C29_Witness ==
    /\ viaTool
    /\ variant = "part_001"
    /\ method = publishAd
    /\ ReceiptRead

\* the tools a variant defines itself and adds to the list
OwnedTools(v) ==
    {ToolList(v)[k] : k \in 1..Len(ToolList(v))} \ {"cdpToolkit.getTools", "dallETool"}

\* what is common to the helpers of all variants: the external calls are
\* submit, wait, hash read, in this order, and the strings returned for a
\* missing method, a throw and a missing hash are the same
SameCallsAndFailures ==
    /\ Len(calls) <= 3
    /\ \A k \in 1..Len(calls) :
          calls[k].op = <<"wallet.invokeContract", "contractInvocation.wait",
                          "receipt.getTransactionHash">>[k]
    /\ (nInvoked > 0 /\ NoEntryNamed(abi, method)) =>
          result.value = FailedPrefix \o MethodPrefix \o method \o NotFoundSuffix
    /\ CallThrew =>
          result.value = (IF thrown.instanceOfError
                            THEN FailedPrefix \o thrown.message
                            ELSE UnknownErrorMessage)
    /\ (ReceiptRead /\ ~HashPresent) => result.value = NoHashMessage

\* C30 as stated: whatever the variant, the helper makes the same calls and
\* returns the string every other variant's helper returns for the same
\* outcomes and arguments, and all variants register the same owned tools.
C30_Original ==
    /\ SameCallsAndFailures
    /\ \A w \in Variants :
          (ReceiptRead /\ HashPresent) =>
              result.value = SuccessMessage(w, txHash.value, args)
    /\ \A v, w \in Variants : OwnedTools(v) = OwnedTools(w)

\* C30 amended: the calls and the failure strings are the same in all
\* variants; the three createAd variants return the same success string and
\* register upload_to_s3 and create_ad; part_001 returns "Ad published
\* successfully ..." without the marketplace link and registers publish_ad only.
C30_Amended ==
    /\ SameCallsAndFailures
    /\ (ReceiptRead /\ HashPresent) =>
          result.value =
              (IF variant = "part_001"
                 THEN AdPublishedPrefix \o ExplorerTxUrl \o txHash.value
                 ELSE AdCreatedPrefix \o ExplorerTxUrl \o txHash.value \o OpenSeaInfix
                        \o ArgsTo(args))
    /\ \A v \in Variants \ {"part_001"} : OwnedTools(v) = {"upload_to_s3", "create_ad"}
    /\ OwnedTools("part_001") = {"publish_ad"}

\* C30 witness: the helper of the second program in src/s3UploadTool.ts has
\* returned its success string for a call made through create_ad
C30_Witness ==
    /\ variant = "s3UploadTool"
    /\ viaTool
    /\ ReceiptRead
    /\ HashPresent
    /\ Contains(result.value, OpenSeaInfix)

-----------------------------------------------------------------------------
(* Properties of the process (checked under Spec) *)

RequiredNames ==
    {requiredVars[i] : i \in 1..Len(requiredVars)}

\* the lines of stderr that follow the header written by validateEnvironment
ListingLines ==
    IF stderr # <<>> /\ stderr[1] = MissingHeader THEN Tail(stderr) ELSE <<>>

\* validateEnvironment listed exactly the names of S, each once
ListsExactly(S) ==
    /\ Len(ListingLines) = Cardinality(S)
    /\ \A n \in S : \E i \in 1..Len(ListingLines) : IsPrefix(n \o <<"=">>, ListingLines[i])
    /\ \A i \in 1..Len(ListingLines) : \E n \in S : IsPrefix(n \o <<"=">>, ListingLines[i])

ExitedByValidation ==
    pc = "exited" /\ exitSite = "validateEnvironment"

\* once validateEnvironment has run: it exited with status 1 listing exactly S
\* when S is not empty, and did not exit when S is empty
ValidationReports(S) ==
    pc # "load" =>
        IF S # {}
          THEN ExitedByValidation /\ exitCode = 1 /\ ListsExactly(S)
          ELSE ~ExitedByValidation /\ ListingLines = <<>>

\* C7 as stated: with U the required variables that are unset, validateEnvironment
\* exits with status 1 and lists exactly U when U is not empty, and does not
\* exit when U is empty.
C7_Original ==
    ValidationReports({n \in RequiredNames : ~env[n].defined})

\* C7 amended: the same with U the required variables that are unset or set to
\* the empty string.
C7_Amended ==
    ValidationReports({n \in RequiredNames : ~env[n].defined \/ env[n].value = <<>>})

\* C7 witness: validateEnvironment exited listing one unset and one empty variable
C7_Witness ==
    /\ ExitedByValidation
    /\ ~env[OPENAI_API_KEY].defined
    /\ env[CDP_API_KEY_NAME] = EnvString(<<>>)
    /\ env[CDP_API_KEY_PRIVATE_KEY] = EnvString(<<"k">>)
    /\ Len(stderr) = 3

\* the line is "exit" up to the case of its four letters
EqualsExitIgnoringCase(line) ==
    /\ Len(line) = 4
    /\ line[1] \in {"e", "E"}
    /\ line[2] \in {"x", "X"}
    /\ line[3] \in {"i", "I"}
    /\ line[4] \in {"t", "T"}

\* C8: in chat mode the messages passed to agent.stream are exactly the lines
\* read that are not "exit" ignoring case, unchanged and in order; a line equal
\* to "exit" ignoring case is never forwarded and ends the loop (the process
\* ends with status 0), so it can only be the last line read.
C8_ExitEndsChat ==
    mode = "chat" =>
        /\ sent = SelectSeq(chatReads, LAMBDA l : ~EqualsExitIgnoringCase(l))
        /\ \A i \in 1..Len(sent) : ~EqualsExitIgnoringCase(sent[i])
        /\ \A i \in 1..(Len(chatReads) - 1) : ~EqualsExitIgnoringCase(chatReads[i])
        /\ (chatReads # <<>> /\ EqualsExitIgnoringCase(chatReads[Len(chatReads)])) =>
              pc = "exited" /\ exitCode = 0 /\ exitSite = "end"
        /\ (pc = "exited" /\ exitSite = "end") =>
              chatReads # <<>> /\ EqualsExitIgnoringCase(chatReads[Len(chatReads)])

\* C8 witness: " exit" was forwarded unchanged and a mixed-case "ExIT" then
\* ended the loop
C8_Witness ==
    /\ mode = "chat"
    /\ chatReads = << <<" ","e","x","i","t">>, <<"E","x","I","T">> >>
    /\ sent = << <<" ","e","x","i","t">> >>
    /\ pc = "exited"
    /\ exitCode = 0

-----------------------------------------------------------------------------
(* Properties of uploadImageUrlToS3 (checked under SpecUpload) *)

UploadReturned(i) ==
    upPc[i] = "returned"

\* C9 as stated: any two successful calls generate distinct keys, so no call
\* overwrites the object written by another.
C9_DistinctKeys ==
    /\ \A i, j \in UploadIds :
          (i # j /\ UploadReturned(i) /\ UploadReturned(j)) => objectKey[i] # objectKey[j]
    /\ \A a, b \in 1..Len(stored) : a < b => stored[a].Key # stored[b].Key

\* C10: a successful call returns https://<bucket>.s3.<region>.amazonaws.com/
\* followed by the key of its own s3.upload request, and only after the storage
\* service has completed that write.
C10_ReturnsOwnUrl ==
    \A i \in UploadIds :
        UploadReturned(i) =>
            /\ upResult[i].kind = "return"
            /\ upResult[i].value =
                  UrlScheme \o Bucket \o S3Infix \o Region \o AmazonSuffix \o objectKey[i]
            /\ \E k \in 1..Len(s3Requests) :
                  /\ s3Requests[k].call = i
                  /\ s3Requests[k].Bucket = Bucket
                  /\ upResult[i].value = S3UrlPrefix \o s3Requests[k].Key
            /\ \E k \in 1..Len(stored) :
                  stored[k].call = i /\ upResult[i].value = S3UrlPrefix \o stored[k].Key
            /\ Cardinality({k \in 1..Len(s3Requests) : s3Requests[k].call = i}) = 1

\* C10 witness: two calls returned, the first after the second had generated a
\* different key
C10_Witness ==
    /\ \A i \in UploadIds : UploadReturned(i)
    /\ objectKey[1] # objectKey[2]
    /\ s3Requests[1].call = 2

FetchFailed(i) ==
    response[i].state = "rejected"

FetchSucceeded(i) ==
    response[i].state = "resolved"

\* the axios.get calls, s3.upload calls and completed writes of call i
FetchesOf(i) ==
    {k \in 1..Len(fetchLog) : fetchLog[k].call = i}

RequestsOf(i) ==
    {k \in 1..Len(s3Requests) : s3Requests[k].call = i}

WritesOf(i) ==
    {k \in 1..Len(stored) : stored[k].call = i}

\* C11: a call whose fetch failed has ended in failure and has issued no
\* s3.upload, then or later; every s3.upload of a call follows a successful
\* fetch of that call.
C11_NoWriteAfterFailedFetch ==
    \A i \in UploadIds :
        /\ FetchFailed(i) =>
              /\ upPc[i] = "thrown"
              /\ upResult[i].kind = "throw"
              /\ RequestsOf(i) = {}
              /\ WritesOf(i) = {}
        /\ RequestsOf(i) # {} => FetchSucceeded(i)

\* C11 witness: the fetch of the first call failed while the second call has
\* fetched and written
C11_Witness ==
    /\ FetchFailed(1)
    /\ upResult[1].kind = "throw"
    /\ FetchSucceeded(2)
    /\ WritesOf(2) # {}

\* C12 as stated: the call fails when the fetch fails, when the fetch returns a
\* non-image payload and when the storage write fails, and returns a URL only
\* after a fetch that returned an image and a completed write.
C12_FailsOnNonImage ==
    \A i \in UploadIds :
        /\ FetchFailed(i) => upResult[i].kind = "throw"
        /\ (FetchSucceeded(i) /\ response[i].contentType # "image/png") =>
              /\ upResult[i].kind # "return"
              /\ RequestsOf(i) = {}
        /\ (upPc[i] = "thrown" /\ FetchSucceeded(i)) => upResult[i].kind = "throw"
        /\ upResult[i].kind = "return" =>
              /\ FetchSucceeded(i)
              /\ response[i].contentType = "image/png"
              /\ writeDone[i]

\* C13: every started call has issued exactly one axios.get, for its own URL,
\* whatever earlier calls did; it has issued exactly one s3.upload if its fetch
\* succeeded and none otherwise, also after it has failed; a call not started
\* has issued nothing.
C13_OneFetchOneWrite ==
    \A i \in UploadIds :
        /\ upPc[i] = "idle" => FetchesOf(i) = {} /\ RequestsOf(i) = {}
        /\ upPc[i] # "idle" =>
              /\ Cardinality(FetchesOf(i)) = 1
              /\ \A k \in FetchesOf(i) : fetchLog[k].url = imageUrl[i]
              /\ Cardinality(RequestsOf(i)) = (IF FetchSucceeded(i) THEN 1 ELSE 0)
              /\ Cardinality(WritesOf(i)) <= Cardinality(RequestsOf(i))
        /\ upPc[i] = "returned" => Cardinality(WritesOf(i)) = 1

\* C13 witness: the same URL was uploaded twice; each call fetched and wrote
C13_Witness ==
    /\ \A i \in UploadIds : UploadReturned(i)
    /\ imageUrl[1] = imageUrl[2]
    /\ Len(fetchLog) = 2
    /\ Len(stored) = 2

\* C14: whenever uploadImageUrlToS3 throws, the upload_to_s3 handler rejects
\* with that very error, and the handler returns only what uploadImageUrlToS3
\* returned; the catch block whose result the create_ad handler returns turns
\* every thrown value into a returned string.
C14_UploadToolRejects ==
    /\ \A i \in UploadIds :
          /\ upResult[i].kind = "throw" => toolResult[i] = upResult[i]
          /\ toolResult[i].kind = "return" => upResult[i] = toolResult[i]
          /\ (FetchFailed(i) \/ upPc[i] = "thrown") => toolResult[i].kind = "throw"
    /\ \A e \in ThrownValues : CatchHandler(e).kind = "return"

\* C14 witness: the handler rejected once after a fetch failure and once after
\* a storage failure
C14_Witness ==
    /\ FetchFailed(1)
    /\ toolResult[1].kind = "throw"
    /\ FetchSucceeded(2)
    /\ toolResult[2].kind = "throw"
    /\ IsPrefix(S3UploadFailedPrefix, toolResult[2].error.message)

-----------------------------------------------------------------------------
(* Properties of startup and of the interaction loops (checked under Spec   *)
(* and, for progress, under FairSpec)                                       *)

\* a request has been passed to agent.stream and its stream is not yet consumed
Outstanding ==
    pc \in {"awaitStream", "streaming"}

\* the first prompt has been shown or the first request has been sent
LoopStarted ==
    pc \in {"chooseMode", "chatPrompt", "awaitStream", "streaming", "sleeping"}

\* the lines of `printed` added by a step all belong to request n
PrintsOnlyFor(n) ==
    /\ Len(printed') >= Len(printed)
    /\ SubSeq(printed', 1, Len(printed)) = printed
    /\ \A k \in (Len(printed) + 1)..Len(printed') : printed'[k].request = n

AutonomousNeverReturns ==
    mode = "auto" =>
        /\ Len(sent) >= 1
        /\ \A k \in 1..Len(sent) : sent[k] = Thought
        /\ chatReads = <<>>
        /\ pc = "exited" =>
              exitCode = 1 /\ exitSite = "runAutonomousMode" /\ loopError # NoThrown

AutonomousOrder ==
    mode = "auto" =>
        /\ sent' # sent =>
              pc = "sleeping" /\ pc' = "awaitStream" /\ sent' = Append(sent, Thought)
        /\ printed' # printed => pc = "streaming" /\ PrintsOnlyFor(Len(sent))
        /\ (pc' = "streaming" /\ pc # "streaming") => pc = "awaitStream"
        /\ (pc' = "sleeping" /\ pc # "sleeping") => pc = "streaming"

\* C15: in autonomous mode every message sent is the constant instruction; the
\* process ends only through a caught error; a send happens only when the
\* sleep that follows the end of the previous stream elapses, and printing
\* happens only while the stream of the latest send is consumed; and while no
\* call fails, the loop goes on to its next send.
C15_AutonomousLoop ==
    /\ []AutonomousNeverReturns
    /\ [][AutonomousOrder]_vars
    /\ (mode = "auto" /\ pc # "exited") ~> (Len(sent) = MaxSends \/ loopError # NoThrown)

\* C15 witness: the second iteration has sent after the first stream was
\* printed and the sleep elapsed
C15_Witness ==
    /\ mode = "auto"
    /\ Len(sent) >= 2
    /\ pc = "sleeping"
    /\ \E k \in 1..Len(printed) : printed[k].request = 1 /\ printed[k].text # Separator
    /\ \E k \in 1..Len(printed) : printed[k].request = 2 /\ printed[k].text # Separator

\* C16: once the catch block of a loop has caught a value, Error or not, the
\* process has ended with status 1 in the catch of the loop that ran, and
\* nothing happens after it: no send, no read, no restart.
C16_LoopErrorExits ==
    /\ [](loopError # NoThrown =>
            /\ pc = "exited"
            /\ exitCode = 1
            /\ mode \in {"chat", "auto"}
            /\ exitSite = (IF mode = "chat" THEN "runChatMode" ELSE "runAutonomousMode"))
    /\ [][loopError # NoThrown => (sent' = sent /\ chatReads' = chatReads /\ pc' = pc)]_vars
    /\ [][loopError' # loopError => (Outstanding /\ sent' = sent)]_vars

\* C16 witness: a value that is not an Error was thrown while a stream of chat
\* mode was being consumed
C16_Witness ==
    /\ mode = "chat"
    /\ loopError = ValueWithoutMessage
    /\ Len(arrived) >= 1
    /\ exitCode = 1

ChatWords ==
    { <<"1">>, <<"c","h","a","t">> }

AutoWords ==
    { <<"2">>, <<"a","u","t","o">> }

ModeMatchesChoice ==
    /\ mode = "chat" <=> Trim(ToLowerCase(choice)) \in ChatWords
    /\ mode = "auto" <=> Trim(ToLowerCase(choice)) \in AutoWords
    /\ mode = "none" =>
          /\ pc \in {"load", "main", "configuring", "exporting", "chooseMode", "exited"}
          /\ sent = <<>> /\ chatReads = <<>> /\ printed = <<>>
    /\ mode = "chat" =>
          /\ pc \in {"chatPrompt", "awaitStream", "streaming", "exited"}
          /\ \A k \in 1..Len(sent) : \E j \in 1..Len(chatReads) : sent[k] = chatReads[j]
    /\ mode = "auto" =>
          /\ pc \in {"awaitStream", "streaming", "sleeping", "exited"}
          /\ chatReads = <<>>

ModeChosenOnce ==
    /\ mode # "none" => (mode' = mode /\ choice' = choice)
    /\ choice' # choice => pc = "chooseMode"
    /\ (choice' # choice /\ Trim(ToLowerCase(choice')) \notin (ChatWords \cup AutoWords)) =>
          pc' = "chooseMode" /\ mode' = "none"

\* C17: the mode is chat exactly when the last line chooseMode read, lower-cased
\* and trimmed, is "1" or "chat", and auto exactly when it is "2" or "auto"; any
\* other line leaves chooseMode asking again; no loop runs before a mode is
\* returned, the loop that runs is the one of the mode, and the mode never
\* changes afterwards.
C17_ChooseMode ==
    /\ []ModeMatchesChoice
    /\ [][ModeChosenOnce]_vars

\* C17 witness: " Chat " was accepted and chat mode has sent a request
C17_Witness ==
    /\ mode = "chat"
    /\ choice = <<" ","C","h","a","t"," ">>
    /\ Len(sent) >= 1

CountOf(op) ==
    Cardinality({k \in 1..Len(fileOps) : fileOps[k] = op})

WalletFileOrder ==
    /\ CountOf("readFileSync") <= 1
    /\ CountOf("writeFileSync") <= 1
    /\ \A r, c \in 1..Len(fileOps) :
          (fileOps[r] = "readFileSync" /\ fileOps[c] = "configureWithWallet") => r < c
    /\ \A w \in 1..Len(fileOps) :
          fileOps[w] = "writeFileSync" =>
              \E c, x \in 1..(w - 1) :
                  /\ c < x
                  /\ fileOps[c] = "configureWithWallet"
                  /\ fileOps[x] = "exportWallet"

\* C18: the credential file is read at most once and written at most once; the
\* read precedes the call of configureWithWallet, the write follows the
\* exportWallet call made once configureWithWallet has resolved; and once the
\* first prompt is shown neither the file nor the list of calls changes.
C18_WalletFileOnce ==
    /\ []WalletFileOrder
    /\ [][LoopStarted => (fileOps' = fileOps /\ walletFile' = walletFile)]_vars

\* C18 witness: the file was read, the SDK configured, the file written, and
\* chat mode has sent a request
C18_Witness ==
    /\ fileOps = <<"existsSync", "readFileSync", "configureWithWallet", "exportWallet",
                   "writeFileSync">>
    /\ walletFile = FileWith(ExportedBlob)
    /\ mode = "chat"
    /\ Len(sent) >= 1

\* C19: in chat mode, while a request is outstanding no line is read and no
\* request is sent; a request is sent only from the prompt, one at a time.
C19_OneOutstanding ==
    /\ [][(mode = "chat" /\ Outstanding) => (chatReads' = chatReads /\ sent' = sent)]_vars
    /\ [][(mode = "chat" /\ sent' # sent) =>
            (pc = "chatPrompt" /\ Len(sent') = Len(sent) + 1 /\ Len(chatReads') = Len(chatReads) + 1)]_vars

\* C19 witness: the second request of chat mode is outstanding after chunks of
\* the first were consumed
C19_Witness ==
    /\ mode = "chat"
    /\ Len(sent) = 2
    /\ pc = "streaming"
    /\ Len(arrived) >= 2
    /\ arrived[1].request = 1
    /\ arrived[Len(arrived)].request = 2

Printable(c) ==
    c.tag \in {"agent", "tools"}

\* the lines printed that are not the separator line
PrintedContents ==
    SelectSeq(printed, LAMBDA l : l.text # Separator)

\* C20: the content lines printed are exactly the contents of the chunks tagged
\* "agent" or "tools", each once, in the order of arrival and under the request
\* they belong to; a separator follows every chunk; lines of a later request
\* come after all lines of an earlier one.
C20_PrintsInArrivalOrder ==
    LET want == SelectSeq(arrived, Printable)
    IN  /\ Len(PrintedContents) = Len(want)
        /\ \A k \in 1..Len(want) :
              /\ PrintedContents[k].request = want[k].request
              /\ PrintedContents[k].text = want[k].content
        /\ Len(printed) - Len(PrintedContents) = Len(arrived)
        /\ \A a, b \in 1..Len(printed) : a < b => printed[a].request <= printed[b].request

\* C20 witness: a "tools" chunk then an "agent" chunk of the first request were
\* printed, and a chunk of the second request has arrived
C20_Witness ==
    /\ Len(arrived) >= 3
    /\ arrived[1].tag = "tools"
    /\ arrived[2].tag = "agent"
    /\ arrived[1].request = 1
    /\ arrived[3].request = 2
    /\ arrived[3].tag = "other"

\* C21: when NETWORK_ID is unset and the required variables are set,
\* validateEnvironment does not end the process: it writes the warning, and
\* nothing else, and startup goes on; the config handed to
\* configureWithWallet names the network base-sepolia.
C21_NetworkIdOptional ==
    (~env[NETWORK_ID].defined /\ \A n \in RequiredNames : ~EnvFalsy(env[n])) =>
        /\ ~ExitedByValidation
        /\ pc # "load" => (stderr # <<>> /\ stderr[1] = NetworkWarning)
        /\ pc = "main" => stderr = <<NetworkWarning>>
        /\ pc \notin {"load", "main"} =>
              sdkConfig.configured /\ sdkConfig.networkId = "base-sepolia"

\* C21 witness: NETWORK_ID is unset, the warning was written and the wallet SDK
\* has been configured
C21_Witness ==
    /\ ~env[NETWORK_ID].defined
    /\ stderr = <<NetworkWarning>>
    /\ pc = "chooseMode"
    /\ sdkConfig.networkId = "base-sepolia"

\* chat mode has ended only by an "exit" line or by a caught error
ChatEndsByExitOrError ==
    (mode = "chat" /\ pc = "exited") =>
        \/ /\ exitCode = 0
           /\ exitSite = "end"
           /\ chatReads # <<>>
           /\ EqualsExitIgnoringCase(chatReads[Len(chatReads)])
        \/ /\ exitCode = 1
           /\ exitSite = "runChatMode"
           /\ loopError # NoThrown

\* C25: in chat mode a forwarded input whose stream opens and ends without an
\* error is followed by the prompt; leaving the stream without an error leads
\* nowhere else; and the loop has ended only by an "exit" line or an error.
C25_ChatPromptsAgain ==
    /\ []ChatEndsByExitOrError
    /\ [][(mode = "chat" /\ pc = "streaming" /\ pc' # "streaming" /\ loopError' = NoThrown)
            => pc' = "chatPrompt"]_vars
    /\ (mode = "chat" /\ Outstanding) ~> (pc = "chatPrompt" \/ loopError # NoThrown)

\* C25 witness: the prompt is shown again after two forwarded inputs whose
\* streams ended
C25_Witness ==
    /\ mode = "chat"
    /\ pc = "chatPrompt"
    /\ Len(sent) = 2
    /\ Len(chatReads) = 2
    /\ Len(arrived) >= 1

\* C26: when a required variable is unset or empty, the process is either
\* still loading or has been ended by validateEnvironment with status 1, and
\* no later startup step has happened: no fs or wallet SDK call, no config,
\* no tool list, no line read by chooseMode or runChatMode, no mode, no send.
C26_MissingVarStopsStartup ==
    (\E n \in RequiredNames : EnvFalsy(env[n])) =>
        /\ pc \in {"load", "exited"}
        /\ pc = "exited" => (exitCode = 1 /\ exitSite = "validateEnvironment")
        /\ fileOps = <<>>
        /\ walletDataStr = EnvUnset
        /\ ~sdkConfig.configured
        /\ allTools = <<>>
        /\ mode = "none"
        /\ choice = <<>>
        /\ chatReads = <<>>
        /\ sent = <<>>
        /\ printed = <<>>

\* C26 witness: validateEnvironment ended the process while a stored
\* credential file was present and untouched
C26_Witness ==
    /\ ExitedByValidation
    /\ ~env[CDP_API_KEY_PRIVATE_KEY].defined
    /\ env[OPENAI_API_KEY] = EnvString(<<"k">>)
    /\ walletFile = FileWith(StoredBlob)
    /\ fileOps = <<>>

\* the number of fs.writeFileSync calls in a list of calls
WritesIn(ops) ==
    Len(SelectSeq(ops, LAMBDA op : op = "writeFileSync"))

\* initializeAgent failed before it reached fs.writeFileSync
FailedBeforeWrite ==
    pc = "exited" /\ exitSite = "main" /\ WritesIn(fileOps) = 0

\* C27: a step that ends initializeAgent by a throw before fs.writeFileSync
\* leaves the credential file as it was, writes "Failed to initialize agent:"
\* (the catch that re-throws) and ends the process in the catch of main with
\* status 1; the file changes in no step without a writeFileSync call; and
\* after such a failure no mode was asked for or chosen and nothing was sent.
C27_InitFailureLeavesFile ==
    /\ [](FailedBeforeWrite =>
            /\ exitCode = 1
            /\ \E k \in 1..Len(stderr) : stderr[k] = InitFailedLine
            /\ mode = "none"
            /\ choice = <<>>
            /\ chatReads = <<>>
            /\ sent = <<>>)
    /\ [][WritesIn(fileOps') = WritesIn(fileOps) => walletFile' = walletFile]_vars
    /\ [][(pc \in {"configuring", "exporting"} /\ pc' = "exited"
             /\ WritesIn(fileOps') = 0) =>
            /\ walletFile' = walletFile
            /\ exitCode' = 1
            /\ exitSite' = "main"
            /\ Len(stderr') > Len(stderr)
            /\ stderr'[Len(stderr) + 1] = InitFailedLine]_vars

\* C27 witness: the wallet export threw after the stored credential had been
\* read, and the file still holds the stored credential
C27_Witness ==
    /\ FailedBeforeWrite
    /\ fileOps = <<"existsSync", "readFileSync", "configureWithWallet", "exportWallet">>
    /\ walletFile = FileWith(StoredBlob)
    /\ exitCode = 1

\* the step of initializeAgent that reads the file and calls configureWithWallet
ReadsAndConfigures ==
    pc = "main" /\ pc' = "configuring"

\* that step logged "Error reading wallet data:"
ReadFailed ==
    /\ Len(stderr') = Len(stderr) + 1
    /\ stderr'[Len(stderr')] = ReadFailedLine

\* C28: when the credential file is absent, cannot be read or is empty, the
\* config passed to configureWithWallet carries no wallet data; a non-empty
\* blob that was read is passed as it is; the step leaves the file alone; and
\* when initialization succeeds the file holds the newly exported credential.
C28_UnreadableOrEmptyFile ==
    /\ [][ReadsAndConfigures =>
            /\ sdkConfig'.configured
            /\ walletFile' = walletFile
            /\ (~walletFile.exists \/ ReadFailed \/ walletFile.content = <<>>) =>
                  sdkConfig'.cdpWalletData = EnvUnset
            /\ (walletFile.exists /\ ~ReadFailed /\ walletFile.content # <<>>) =>
                  sdkConfig'.cdpWalletData = EnvString(walletFile.content)]_vars
    /\ [][(pc = "exporting" /\ pc' = "chooseMode") =>
            /\ walletFile' = FileWith(ExportedBlob)
            /\ fileOps' = Append(fileOps, "writeFileSync")]_vars
    /\ [](LoopStarted => walletFile = FileWith(ExportedBlob))

\* C28 witness: an empty credential file was read, no wallet data was passed
\* on, and the file now holds the exported credential
C28_Witness ==
    /\ walletDataStr = EnvString(<<>>)
    /\ sdkConfig.configured
    /\ sdkConfig.cdpWalletData = EnvUnset
    /\ pc = "chooseMode"
    /\ walletFile = FileWith(ExportedBlob)

-----------------------------------------------------------------------------
(* Properties of the process and its tools together (checked under SpecAgent) *)

\* C23: until the first message has been sent to the agent no capability has
\* been invoked: no axios.get, no s3.upload, no completed storage write, no
\* invokeContract call and no wallet submission; in particular the step that
\* builds the tool list changes none of these.
C23_ToolListInvokesNothing ==
    /\ [](sent = <<>> =>
            /\ fetchLog = <<>>
            /\ s3Requests = <<>>
            /\ stored = <<>>
            /\ nInvoked = 0
            /\ walletLog = <<>>
            /\ \A i \in UploadIds : upPc[i] = "idle")
    /\ [][allTools' # allTools =>
            UNCHANGED <<fetchLog, s3Requests, stored, nInvoked, walletLog, upPc, pcInvoke>>]_vars

\* C23 witness: after the first send the agent has fetched, stored and
\* submitted through the registered tools
C23_Witness ==
    /\ Len(sent) = 1
    /\ allTools = ToolList("adAgent")
    /\ fetchLog # <<>>
    /\ stored # <<>>
    /\ walletLog # <<>>

====
